---- MODULE Spec2Model ----
(***************************************************************************)
(* Model of bot.py: the negamax / alpha-beta search of LichessGame and the *)
(* per-game play loop LichessGame.run.                                     *)
(*                                                                         *)
(* The chess rules engine (python-chess) is an external collaborator.  It  *)
(* is modelled as a finite game graph `game`: every abstract position has  *)
(* a piece placement, an ordered list of legal moves (each leading to a    *)
(* successor position), a draw-claimable flag and an in-check flag.  A     *)
(* board is the position it is in, the side to move and the move stack     *)
(* that push_uci and pop maintain.                                         *)
(***************************************************************************)
EXTENDS Integers, Sequences, FiniteSets, TLC

VARIABLES game,        \* the rules engine's answers, fixed for a behaviour
          sBoard,      \* search harness: the board handed to the search
          sDepth,      \* search harness: the depth of the last call
          sResult,     \* search harness: result of the last call
          sOp          \* search harness: which function was applied last

svars == <<game, sBoard, sDepth, sResult, sOp>>

VARIABLES players,     \* server: the identities of the white and black player
          record,      \* server: the moves of record, in coordinate notation
          over,        \* server: the game is no longer in progress
          stream,      \* the events of stream_game_state not yet read
          closed,      \* the server has ended the event stream
          pc,          \* LichessGame: where the session is
          color,       \* LichessGame.color
          board,       \* LichessGame.board
          initEvent,   \* the first event of the stream, read by __init__
          reads,       \* number of events the session has read
          searches,    \* number of select_move calls
          searchedAt,  \* the board of the first select_move call
          selected,    \* best_move of the last select_move call
          submits,     \* number of make_move calls
          resigns      \* number of resign_game calls

vars == <<game, players, record, over, stream, closed, pc, color, board,
          initEvent, reads, searches, searchedAt, selected, submits, resigns>>

VARIABLES incoming,    \* the events of stream_incoming_events not yet read
          delivered,   \* number of incoming events the server has emitted
          opening,     \* per game: what the first read of its state stream gives
          dpc,         \* LichessBot.run: where the dispatcher is
          accepted,    \* the challenges accept_challenge was called for
          workers,     \* per game: number of threads started on game.run
          failed       \* per game: number of threads that left run by an error

dvars == <<incoming, delivered, opening, dpc, accepted, workers, failed>>

-----------------------------------------------------------------------------
(* Bounds of the model *)

\* largest search depth the search harness requests
MaxDepth == 4
\* largest number of legal moves of a position
MaxMoves == 2
\* largest number of moves the game already has when the session is created
MaxHistory == 1
\* largest number of moves of record of a game
MaxPlies == 3
\* largest number of unread events of a game-state stream
MaxQueue == 2
\* largest number of events the server emits on the incoming-event stream
MaxIncoming == 3

\* minimax_move(depth=4)
SelectDepth == 4

\* the abstract positions of the game graph
Pos == {"p1", "p2"}

\* the game ids and challenge ids of the incoming events
GameIds == {"g1", "g2"}
ChallengeIds == {"c1"}

\* None of Python; a chess.Move is <<i>>, the i-th move the engine generates
None == <<>>

WHITE == "white"
BLACK == "black"

\* self.color before it is assigned, and the side of a bot that does not play
NoColor == "none"

Other(c) == IF c = WHITE THEN BLACK ELSE WHITE

\* float('inf'): larger than every material sum of the model
Inf == 1000000

-----------------------------------------------------------------------------
(* Piece placements: the first field of board.epd(), as a sequence of      *)
(* characters (piece letters, digits and slashes).                         *)

\* the placement of chess.Board(), the standard starting position
StartPlacement ==
  <<"r", "n", "b", "q", "k", "b", "n", "r", "/",
    "p", "p", "p", "p", "p", "p", "p", "p", "/",
    "8", "/", "8", "/", "8", "/", "8", "/",
    "P", "P", "P", "P", "P", "P", "P", "P", "/",
    "R", "N", "B", "Q", "K", "B", "N", "R">>

Placements ==
  { StartPlacement,
    <<"k", "7", "/", "K", "N">>,          \* king and knight against king
    <<"k", "r", "/", "K", "P">>,          \* black is up a rook for a pawn
    <<"k", "p", "/", "K", "Q">> }         \* white is up a queen for a pawn

\* piece_values.get(c, 0), in quarter pawns (the bishop is worth 3.25)
PieceValue(c) ==
  CASE c = "p" -> 4
    [] c = "n" -> 12
    [] c = "b" -> 13
    [] c = "k" -> 40000
    [] c = "q" -> 36
    [] c = "r" -> 20
    [] c = "P" -> -4
    [] c = "N" -> -12
    [] c = "B" -> -13
    [] c = "K" -> -40000
    [] c = "Q" -> -36
    [] c = "R" -> -20
    [] OTHER -> 0

RECURSIVE SumValues(_)
SumValues(s) ==
  IF s = <<>> THEN 0 ELSE PieceValue(Head(s)) + SumValues(Tail(s))

-----------------------------------------------------------------------------
(* The rules engine *)

\* a placement with no pawn, rook or queen and at most one minor piece
InsufficientPlacement(pl) ==
  /\ \A i \in 1..Len(pl) : pl[i] \notin {"p", "P", "r", "R", "q", "Q"}
  /\ Cardinality({i \in 1..Len(pl) : pl[i] \in {"n", "N", "b", "B"}}) <= 1

InsufficientPlacements == {pl \in Placements : InsufficientPlacement(pl)}

\* the successor positions of a position, one per legal move, in the order
\* the engine generates the moves
SuccSeqs == UNION {[1..n -> Pos] : n \in 0..MaxMoves}

\* What the engine answers about a position.  `check` tells checkmate from
\* stalemate where there is no legal move; `claim` is can_claim_draw, asked
\* where the game goes on.  No checkmate has insufficient material.
Nodes ==
  { nd \in [pieces : Placements, succ : SuccSeqs, claim : BOOLEAN, check : BOOLEAN] :
      /\ (nd.succ = <<>>) => ~nd.claim
      /\ (nd.succ # <<>>) => ~nd.check
      /\ (nd.succ = <<>> /\ nd.check) => ~InsufficientPlacement(nd.pieces) }

Games == [Pos -> Nodes]

\* chess.Board: the position, board.turn and board.move_stack; every entry
\* of the stack keeps the move and the position it was played in, for pop
Boards == [at : Pos, turn : {WHITE, BLACK}, stack : {<<>>}]

\* the position a board is in
NodeOf(bd) == game[bd.at]

\* board.turn
Turn(bd) == bd.turn

\* the moves of board.move_stack
MoveStack(bd) == [k \in 1..Len(bd.stack) |-> bd.stack[k].move]

\* board.legal_moves, in the engine's enumeration order
LegalMoves(bd) == [i \in 1..Len(NodeOf(bd).succ) |-> <<i>>]

IsCheckmate(bd) == NodeOf(bd).succ = <<>> /\ NodeOf(bd).check
\* a stalemate test that never answers yes
IsStalemateNever(bd) == FALSE

IsStalemate(bd) == NodeOf(bd).succ = <<>> /\ ~NodeOf(bd).check
CanClaimDraw(bd) == NodeOf(bd).claim
IsInsufficientMaterial(bd) == NodeOf(bd).pieces \in InsufficientPlacements

\* board.epd().split()[0]
Epd(bd) == NodeOf(bd).pieces

\* a str(None) that reads as the first legal move in coordinate notation
NoneReadsAsMove == <<"uci", 1>>

\* str(move): the coordinate notation of a move, the text "None" for None
NoneStr == <<"N", "o", "n", "e">>
Str(m) == IF m = None THEN NoneStr ELSE <<"uci", m[1]>>

\* chess.Move.from_uci accepts a string: it is coordinate notation
ValidUci(s) == Len(s) = 2 /\ s[1] = "uci"
FromUci(s) == <<s[2]>>

\* the string parses to a move that is legal on the board
IsLegalUci(bd, s) ==
  /\ ValidUci(s)
  /\ FromUci(s)[1] \in 1..Len(NodeOf(bd).succ)

\* a pop that leaves the board as it is
PopMissing(bd) == bd

\* board.push_uci on a legal move, board.pop
PushUci(bd, s) ==
  [at    |-> NodeOf(bd).succ[FromUci(s)[1]],
   turn  |-> Other(bd.turn),
   stack |-> Append(bd.stack, [move |-> FromUci(s), from |-> bd.at])]

Pop(bd) ==
  [at    |-> bd.stack[Len(bd.stack)].from,
   turn  |-> Other(bd.turn),
   stack |-> SubSeq(bd.stack, 1, Len(bd.stack) - 1)]

-----------------------------------------------------------------------------
(* The search *)

\* sum(piece_values.get(c, 0) for c in pieces), for every placement
Material == [pl \in Placements |-> SumValues(pl)]

evaluate_board(bd) == Material[Epd(bd)]

RECURSIVE minimax(_, _, _, _)
RECURSIVE MoveLoop(_, _, _, _, _, _, _)

\* the cutoff test with alpha read where the code reads beta
BetaCutoffOnAlpha(best_eval, alpha, beta) == best_eval >= alpha

\* if best_eval >= beta: break
BetaCutoff(best_eval, alpha, beta) == best_eval >= beta

\* the for loop of _minimax from the i-th legal move on
MoveLoop(bd, alpha, beta, depth, i, best_eval, best_move) ==
  IF i > Len(LegalMoves(bd))
  THEN [eval |-> best_eval, move |-> best_move, board |-> bd]
  ELSE LET mv       == LegalMoves(bd)[i]
           child    == minimax(PushUci(bd, Str(mv)), -beta, -alpha, depth - 1)
           cur_eval == -child.eval
           popped   == Pop(child.board)
           better   == best_eval < cur_eval
           new_eval == IF better THEN cur_eval ELSE best_eval
           new_alpha == IF better THEN cur_eval ELSE alpha
           new_move == IF better THEN mv ELSE best_move
       IN  IF BetaCutoff(new_eval, new_alpha, beta)
           THEN [eval |-> new_eval, move |-> new_move, board |-> popped]
           ELSE MoveLoop(popped, new_alpha, beta, depth, i + 1, new_eval, new_move)

\* the branch of the if / elif chain of _minimax a call takes
Branch(bd, depth) ==
  IF depth = 0 /\ LegalMoves(bd) # <<>>
  THEN "static"
  ELSE IF CanClaimDraw(bd) \/ IsStalemate(bd) \/ IsInsufficientMaterial(bd)
  THEN "draw"
  ELSE IF IsCheckmate(bd) /\ Turn(bd) = BLACK
  THEN "white_wins"
  ELSE IF IsCheckmate(bd) /\ Turn(bd) = WHITE
  THEN "black_wins"
  ELSE "enumerate"

minimax(bd, alpha, beta, depth) ==
  CASE Branch(bd, depth) = "static" ->
         [eval |-> evaluate_board(bd), move |-> None, board |-> bd]
    [] Branch(bd, depth) = "draw" ->
         [eval |-> 0, move |-> None, board |-> bd]
    [] Branch(bd, depth) = "white_wins" ->
         [eval |-> Inf, move |-> None, board |-> bd]
    [] Branch(bd, depth) = "black_wins" ->
         [eval |-> -Inf, move |-> None, board |-> bd]
    [] OTHER ->
         MoveLoop(bd, alpha, beta, depth, 1, -Inf, None)

\* minimax_move: the search with the full window; the move is returned as str
minimax_move(bd, depth) ==
  LET r == minimax(bd, -Inf, Inf, depth)
  IN  [value |-> r.eval, best_move |-> r.move, uci |-> Str(r.move), board |-> r.board]

-----------------------------------------------------------------------------
(* The search harness: the search and the evaluator applied to every board *)

\* the session does not exist in the search harness
SessionIdle ==
  /\ players = [white |-> "opp", black |-> "other"]
  /\ record = <<>>
  /\ over = FALSE
  /\ stream = <<>>
  /\ closed = FALSE
  /\ pc = "idle"
  /\ color = NoColor
  /\ board = None
  /\ initEvent = None
  /\ reads = 0
  /\ searches = 0
  /\ searchedAt = None
  /\ selected = None
  /\ submits = 0
  /\ resigns = 0

\* the dispatcher does not run in the search harness
DispatcherIdle ==
  /\ incoming = <<>>
  /\ delivered = 0
  /\ opening = [g \in GameIds |-> "none"]
  /\ dpc = "idle"
  /\ accepted = {}
  /\ workers = [g \in GameIds |-> 0]
  /\ failed = [g \in GameIds |-> 0]

SInit ==
  /\ game \in Games
  /\ sBoard \in Boards
  /\ sDepth = 0
  /\ sResult = <<>>
  /\ sOp = "none"
  /\ SessionIdle
  /\ DispatcherIdle

Search ==
  /\ sOp = "none"
  /\ \E d \in 0..MaxDepth :
       /\ sDepth' = d
       /\ sResult' = minimax_move(sBoard, d)
  /\ sOp' = "search"
  /\ UNCHANGED <<game, sBoard>>
  /\ UNCHANGED <<players, record, over, stream, closed, pc, color, board,
                 initEvent, reads, searches, searchedAt, selected, submits, resigns>>
  /\ UNCHANGED dvars

Evaluate ==
  /\ sOp = "none"
  /\ sResult' = evaluate_board(sBoard)
  /\ sOp' = "evaluate"
  /\ UNCHANGED <<game, sBoard, sDepth>>
  /\ UNCHANGED <<players, record, over, stream, closed, pc, color, board,
                 initEvent, reads, searches, searchedAt, selected, submits, resigns>>
  /\ UNCHANGED dvars

SNext == Search \/ Evaluate

SearchSpec == SInit /\ [][SNext]_<<svars, vars, dvars>>

-----------------------------------------------------------------------------
(* The game server and the transport (berserk) *)

\* the account id of the bot, self.user_id
UserId == "bot"

\* the first position of every game, chess.Board()
Start == "p1"

StartBoard == [at |-> Start, turn |-> WHITE, stack |-> <<>>]

\* the moves, in coordinate notation, are legal one after the other
RECURSIVE LegalLine(_, _)
LegalLine(bd, moves) ==
  \/ moves = <<>>
  \/ /\ IsLegalUci(bd, Head(moves))
     /\ LegalLine(PushUci(bd, Head(moves)), Tail(moves))

\* the board after the moves, played from the starting position
RECURSIVE BoardOf(_)
BoardOf(moves) ==
  IF moves = <<>>
  THEN StartBoard
  ELSE PushUci(BoardOf(SubSeq(moves, 1, Len(moves) - 1)), moves[Len(moves)])

\* the position of record on the server
RecordBoard == BoardOf(record)

\* the side the bot plays according to the server, None if it does not play
BotSide ==
  IF players.white = UserId THEN WHITE
  ELSE IF players.black = UserId THEN BLACK
  ELSE NoColor

\* the position of record has ended the game
GameEnded(b) == IsCheckmate(b) \/ IsStalemate(b)

\* the status tag of the event the server emits for the position b
StatusOf(b) == IF GameEnded(b) THEN "mate" ELSE "started"

StateEvent(status, moves) == [status |-> status, moves |-> moves]

\* the legal move sequences of length at most n from the start
RECURSIVE Histories(_)
Histories(n) ==
  IF n = 0 THEN {<<>>}
  ELSE LET shorter == Histories(n - 1)
       IN  shorter \cup
           { Append(h, Str(<<i>>)) : h \in { x \in shorter : Len(x) = n - 1 },
                                    i \in 1..MaxMoves }

LegalHistory(h) == LegalLine(StartBoard, h)

\* the server accepts a move of the bot: the game is in progress, it is the
\* bot's turn and the move is legal in the position of record
Accepts(uci) ==
  /\ ~over
  /\ Turn(RecordBoard) = BotSide
  /\ IsLegalUci(RecordBoard, uci)

\* The server acts while the session waits for an event.  An event that
\* arrives during a search is queued behind the ones the session has not
\* read, which is the state reached when it arrives before the search starts.
SessionWaits == pc \in {"skip", "loop"}

\* the other side plays a move
OpponentMove ==
  /\ SessionWaits
  /\ ~over
  /\ Len(record) < MaxPlies
  /\ Len(stream) < MaxQueue
  /\ Turn(RecordBoard) # BotSide
  /\ \E i \in 1..Len(LegalMoves(RecordBoard)) :
       LET after == Append(record, Str(LegalMoves(RecordBoard)[i]))
           b     == BoardOf(after)
       IN  /\ record' = after
           /\ stream' = Append(stream, StateEvent(StatusOf(b), after))
           /\ over' = GameEnded(b)
           /\ closed' = GameEnded(b)
  /\ UNCHANGED <<game, players, pc, color, board, initEvent, reads, searches,
                 searchedAt, selected, submits, resigns>>
  /\ UNCHANGED <<sBoard, sDepth, sResult, sOp>>
  /\ UNCHANGED dvars

\* the server emits a state event that carries no new move (a draw offer,
\* a takeback proposal)
ServerNotice ==
  /\ SessionWaits
  /\ ~over
  /\ Len(stream) < MaxQueue
  /\ stream' = Append(stream, StateEvent("started", record))
  /\ UNCHANGED <<game, players, record, over, closed, pc, color, board,
                 initEvent, reads, searches, searchedAt, selected, submits, resigns>>
  /\ UNCHANGED <<sBoard, sDepth, sResult, sOp>>
  /\ UNCHANGED dvars

\* the game ends without a move: the other side resigns, aborts or loses on time
GameEnds ==
  /\ SessionWaits
  /\ ~over
  /\ Len(stream) < MaxQueue
  /\ over' = TRUE
  /\ closed' = TRUE
  /\ stream' = Append(stream, StateEvent("resign", record))
  /\ UNCHANGED <<game, players, record, pc, color, board, initEvent, reads,
                 searches, searchedAt, selected, submits, resigns>>
  /\ UNCHANGED <<sBoard, sDepth, sResult, sOp>>
  /\ UNCHANGED dvars

-----------------------------------------------------------------------------
(* LichessGame *)

select_move(b) == minimax_move(b, SelectDepth)

\* the game of the session that is modelled statement by statement
GameId == "g1"

\* the colour test of __init__; NoColor where it raises RuntimeError
ColorOrBlack(event) == IF UserId = event.white THEN WHITE ELSE BLACK

ColorOf(event) ==
  IF UserId = event.white THEN WHITE
  ELSE IF UserId = event.black THEN BLACK
  ELSE NoColor

\* the status test that reads every event as in progress
InProgressAlways(event) == TRUE

\* event.get('status') == 'started'
InProgress(event) == event.status = "started"

\* a break that sends a resignation on its way out
BreakResigning ==
  /\ pc' = "done"
  /\ resigns' = resigns + 1
  /\ UNCHANGED <<board, over, closed>>

\* the else branch of the loop: the game is over, break; run returns
Break ==
  /\ pc' = "done"
  /\ UNCHANGED <<board, over, closed, resigns>>

\* an except clause that re-raises without the resign_game call
ResignSkipped(n) == n

\* self.client.bots.resign_game(self.game_id), counted
ResignGame(n) == n + 1

\* except Exception: resign_game; raise
Fail ==
  /\ resigns' = ResignGame(resigns)
  /\ pc' = "raised"
  /\ over' = TRUE
  /\ closed' = TRUE

\* LichessGame(...) in the dispatcher: __init__ reads the first event, takes
\* the colour and creates the board; its RuntimeError leaves LichessBot.run
Construct ==
  /\ pc = "new"
  /\ stream # <<>>
  /\ LET event == Head(stream)
     IN  /\ stream' = Tail(stream)
         /\ reads' = reads + 1
         /\ initEvent' = event
         /\ IF ColorOf(event) # NoColor
            THEN /\ color' = ColorOf(event)
                 /\ board' = StartBoard
                 /\ pc' = "start"
                 /\ dpc' = dpc
            ELSE /\ color' = color
                 /\ board' = board
                 /\ pc' = "ctor_failed"
                 /\ dpc' = "crashed"
  /\ UNCHANGED <<game, players, record, over, closed, searches, searchedAt,
                 selected, submits, resigns>>
  /\ UNCHANGED <<sBoard, sDepth, sResult, sOp>>
  /\ UNCHANGED <<incoming, delivered, opening, accepted, workers, failed>>

\* threading.Thread(target=game.run).start(), and in the thread the first
\* statement of run: if self.color == 'white': self.move()
RunStart ==
  /\ pc = "start"
  /\ pc' = IF color = WHITE THEN "move" ELSE "loop"
  /\ workers' = [workers EXCEPT ![GameId] = @ + 1]
  /\ UNCHANGED <<game, players, record, over, stream, closed, color, board,
                 initEvent, reads, searches, searchedAt, selected, submits, resigns>>
  /\ UNCHANGED <<sBoard, sDepth, sResult, sOp>>
  /\ UNCHANGED <<incoming, delivered, opening, dpc, accepted, failed>>

\* move, up to the read of the confirmation event: search, push, submit
Move ==
  /\ pc = "move"
  /\ Len(board.stack) < MaxPlies
  /\ \E r \in {select_move(board)} :
         /\ searches' = searches + 1
         /\ searchedAt' = IF searches = 0 THEN board ELSE searchedAt
         /\ selected' = r.best_move
         /\ IF ~IsLegalUci(r.board, r.uci)
            THEN \* uci_to_san / push_uci raise
                 /\ board' = r.board
                 /\ Fail
                 /\ UNCHANGED <<record, stream, submits>>
            ELSE /\ board' = PushUci(r.board, r.uci)
                 /\ submits' = submits + 1
                 /\ \/ \* the server plays the move and emits the confirmation
                       /\ Accepts(r.uci)
                       /\ Len(record) < MaxPlies
                       /\ LET after == Append(record, r.uci)
                              b     == BoardOf(after)
                          IN  /\ record' = after
                              /\ stream' = Append(stream, StateEvent(StatusOf(b), after))
                              /\ over' = GameEnded(b)
                              /\ closed' = GameEnded(b)
                       /\ pc' = "skip"
                       /\ UNCHANGED resigns
                    \/ \* the server rejects the move
                       /\ ~Accepts(r.uci)
                       /\ Fail
                       /\ UNCHANGED <<record, stream>>
                    \/ \* the request fails
                       /\ Fail
                       /\ UNCHANGED <<record, stream>>
  /\ UNCHANGED <<game, players, color, initEvent, reads>>
  /\ UNCHANGED <<sBoard, sDepth, sResult, sOp>>
  /\ UNCHANGED dvars

\* a move that returns without the read of the confirmation event
SkipConfirmationMissing ==
  /\ pc = "skip"
  /\ pc' = "loop"
  /\ UNCHANGED <<game, players, record, over, stream, closed, color, board,
                 initEvent, reads, searches, searchedAt, selected, submits, resigns>>
  /\ UNCHANGED <<sBoard, sDepth, sResult, sOp>>
  /\ UNCHANGED dvars

\* move: next(self.stream), the confirmation event is read and dropped
SkipConfirmation ==
  /\ pc = "skip"
  /\ \/ /\ stream # <<>>
        /\ stream' = Tail(stream)
        /\ reads' = reads + 1
        /\ pc' = "loop"
        /\ UNCHANGED <<over, closed, resigns>>
     \/ \* StopIteration
        /\ stream = <<>>
        /\ closed
        /\ Fail
        /\ UNCHANGED <<stream, reads>>
  /\ UNCHANGED <<game, players, record, color, board, initEvent, searches,
                 searchedAt, selected, submits>>
  /\ UNCHANGED <<sBoard, sDepth, sResult, sOp>>
  /\ UNCHANGED dvars

\* run: one iteration of "for event in self.stream", up to the call of move
LoopEvent ==
  /\ pc = "loop"
  /\ \/ /\ stream # <<>>
        /\ LET event == Head(stream)
           IN  /\ stream' = Tail(stream)
               /\ reads' = reads + 1
               /\ IF InProgress(event)
                  THEN IF event.moves = <<>>
                       THEN \* split()[-1] raises IndexError
                            /\ Fail
                            /\ UNCHANGED board
                       ELSE LET last_move == event.moves[Len(event.moves)]
                            IN  IF IsLegalUci(board, last_move)
                                THEN /\ board' = PushUci(board, last_move)
                                     /\ pc' = "move"
                                     /\ UNCHANGED <<over, closed, resigns>>
                                ELSE \* uci_to_san / push_uci raise
                                     /\ Fail
                                     /\ UNCHANGED board
                  ELSE Break
     \/ \* the stream has ended: the loop is left and run returns
        /\ stream = <<>>
        /\ closed
        /\ pc' = "done"
        /\ UNCHANGED <<stream, reads, board, over, closed, resigns>>
  /\ UNCHANGED <<game, players, record, color, initEvent, searches, searchedAt,
                 selected, submits>>
  /\ UNCHANGED <<sBoard, sDepth, sResult, sOp>>
  /\ UNCHANGED dvars

\* The games a session is run on: the first position is the standard
\* starting position, which has legal moves and no draw to claim; in the
\* other position black is up a rook for a pawn.
SessionGames ==
  { g \in Games :
      /\ g[Start].pieces = StartPlacement
      /\ g[Start].succ # <<>>
      /\ ~g[Start].claim
      /\ \A p \in Pos \ {Start} : g[p].pieces = <<"k", "r", "/", "K", "P">> }

\* a game of the server when the game-start notification reaches the bot
Init ==
  /\ game \in SessionGames
  /\ players \in { [white |-> UserId, black |-> "opp"],
                   [white |-> "opp", black |-> UserId],
                   [white |-> "opp", black |-> "other"] }
  /\ record \in { h \in Histories(MaxHistory) : LegalHistory(h) }
  /\ over = FALSE
  /\ closed = FALSE
  /\ stream = << [white |-> players.white, black |-> players.black,
                  status |-> "started", moves |-> record] >>
  /\ pc = "new"
  /\ color = NoColor
  /\ board = None
  /\ initEvent = None
  /\ reads = 0
  /\ searches = 0
  /\ searchedAt = None
  /\ selected = None
  /\ submits = 0
  /\ resigns = 0
  /\ sBoard = None
  /\ sDepth = 0
  /\ sResult = <<>>
  /\ sOp = "idle"
  /\ incoming = <<>>
  /\ delivered = 0
  /\ opening = [g \in GameIds |-> "none"]
  /\ dpc = "listening"
  /\ accepted = {}
  /\ workers = [g \in GameIds |-> 0]
  /\ failed = [g \in GameIds |-> 0]

Next ==
  \/ Construct
  \/ RunStart
  \/ Move
  \/ SkipConfirmation
  \/ LoopEvent
  \/ OpponentMove
  \/ ServerNotice
  \/ GameEnds

Spec == Init /\ [][Next]_<<svars, vars, dvars>>

-----------------------------------------------------------------------------
(* LichessBot: the dispatcher.  Of a session it sees the construction, which *)
(* runs in the dispatcher, and the thread it starts; the thread is reduced  *)
(* to the one step that matters to the others, its end by an error.         *)

\* the events of stream_incoming_events
IncomingEvents ==
  {[type |-> "challenge", id |-> c] : c \in ChallengeIds} \cup
  {[type |-> "gameStart", id |-> g] : g \in GameIds} \cup
  {[type |-> "other", id |-> "none"]}

\* What the first read of the state stream of a game gives: an event that
\* lists the bot as white or as black, an event that lists it as neither,
\* or no event (the read raises).
Openings == {"white", "black", "stranger", "broken"}

\* LichessGame(...) returns a session: next(self.stream) gives an event and
\* the colour test does not raise
Constructs(g) == opening[g] \in {"white", "black"}

\* the rules engine is not consulted by the dispatcher
NoGame ==
  [p \in Pos |-> [pieces |-> StartPlacement, succ |-> <<>>,
                  claim |-> FALSE, check |-> FALSE]]

DInit ==
  /\ opening \in [GameIds -> Openings]
  /\ incoming = <<>>
  /\ delivered = 0
  /\ dpc = "listening"
  /\ accepted = {}
  /\ workers = [g \in GameIds |-> 0]
  /\ failed = [g \in GameIds |-> 0]
  /\ game = NoGame
  /\ SessionIdle
  /\ sBoard = None
  /\ sDepth = 0
  /\ sResult = <<>>
  /\ sOp = "idle"

\* the server emits an event on the incoming-event stream
Deliver ==
  /\ delivered < MaxIncoming
  /\ \E event \in IncomingEvents : incoming' = Append(incoming, event)
  /\ delivered' = delivered + 1
  /\ UNCHANGED <<opening, dpc, accepted, workers, failed>>
  /\ UNCHANGED <<svars, vars>>

\* LichessBot.run: one iteration of the loop over the incoming events.  An
\* exception of LichessGame(...) is caught nowhere and leaves run.
Dispatch ==
  /\ dpc = "listening"
  /\ incoming # <<>>
  /\ LET event == Head(incoming)
     IN  /\ incoming' = Tail(incoming)
         /\ IF event.type = "challenge"
            THEN /\ accepted' = accepted \cup {event.id}
                 /\ UNCHANGED <<dpc, workers>>
            ELSE IF event.type = "gameStart"
            THEN IF Constructs(event.id)
                 THEN /\ workers' = [workers EXCEPT ![event.id] = @ + 1]
                      /\ UNCHANGED <<dpc, accepted>>
                 ELSE /\ dpc' = "crashed"
                      /\ UNCHANGED <<accepted, workers>>
            ELSE UNCHANGED <<dpc, accepted, workers>>
  /\ UNCHANGED <<delivered, opening, failed>>
  /\ UNCHANGED <<svars, vars>>

\* a thread of a game leaves run by an error: resign_game, raise
WorkerFails ==
  /\ \E g \in GameIds :
       /\ failed[g] < workers[g]
       /\ failed' = [failed EXCEPT ![g] = @ + 1]
  /\ UNCHANGED <<incoming, delivered, opening, dpc, accepted, workers>>
  /\ UNCHANGED <<svars, vars>>

DNext == Deliver \/ Dispatch \/ WorkerFails

DispatchSpec == DInit /\ [][DNext]_<<svars, vars, dvars>>

-----------------------------------------------------------------------------
(* Reference definitions used by the properties of the search *)

\* the move is one of the legal moves of the board
IsLegalMove(bd, m) == \E i \in 1..Len(LegalMoves(bd)) : LegalMoves(bd)[i] = m

\* the board after a legal move
After(bd, m) == PushUci(bd, Str(m))

\* the board with the other side to move on the same placement
Flipped(bd) == [bd EXCEPT !.turn = Other(@)]

IsTerminalOrDraw(bd) ==
  \/ IsCheckmate(bd)
  \/ IsStalemate(bd)
  \/ CanClaimDraw(bd)
  \/ IsInsufficientMaterial(bd)

\* negamax without a window: every legal move of every node is searched
RECURSIVE negamax(_, _)
RECURSIVE PlainLoop(_, _, _, _, _)

PlainLoop(bd, depth, i, best_eval, best_move) ==
  IF i > Len(LegalMoves(bd))
  THEN [eval |-> best_eval, move |-> best_move]
  ELSE LET mv       == LegalMoves(bd)[i]
           cur_eval == -negamax(After(bd, mv), depth - 1).eval
       IN  IF best_eval < cur_eval
           THEN PlainLoop(bd, depth, i + 1, cur_eval, mv)
           ELSE PlainLoop(bd, depth, i + 1, best_eval, best_move)

negamax(bd, depth) ==
  IF depth = 0 /\ LegalMoves(bd) # <<>>
  THEN [eval |-> evaluate_board(bd), move |-> None]
  ELSE IF CanClaimDraw(bd) \/ IsStalemate(bd) \/ IsInsufficientMaterial(bd)
  THEN [eval |-> 0, move |-> None]
  ELSE IF IsCheckmate(bd) /\ Turn(bd) = BLACK
  THEN [eval |-> Inf, move |-> None]
  ELSE IF IsCheckmate(bd) /\ Turn(bd) = WHITE
  THEN [eval |-> -Inf, move |-> None]
  ELSE PlainLoop(bd, depth, 1, -Inf, None)

\* the number of _minimax calls a search makes, and of negamax calls
RECURSIVE Visits(_, _, _, _)
RECURSIVE VisitLoop(_, _, _, _, _, _)

VisitLoop(bd, alpha, beta, depth, i, best_eval) ==
  IF i > Len(LegalMoves(bd))
  THEN 0
  ELSE LET b        == After(bd, LegalMoves(bd)[i])
           cur_eval == -minimax(b, -beta, -alpha, depth - 1).eval
           better   == best_eval < cur_eval
           new_eval == IF better THEN cur_eval ELSE best_eval
           new_alpha == IF better THEN cur_eval ELSE alpha
       IN  Visits(b, -beta, -alpha, depth - 1) +
             (IF BetaCutoff(new_eval, new_alpha, beta)
              THEN 0
              ELSE VisitLoop(bd, new_alpha, beta, depth, i + 1, new_eval))

Visits(bd, alpha, beta, depth) ==
  IF (depth = 0 /\ LegalMoves(bd) # <<>>) \/ IsTerminalOrDraw(bd)
  THEN 1
  ELSE 1 + VisitLoop(bd, alpha, beta, depth, 1, -Inf)

RECURSIVE PlainVisits(_, _)
RECURSIVE PlainVisitSum(_, _, _)

PlainVisitSum(bd, depth, i) ==
  IF i > Len(LegalMoves(bd))
  THEN 0
  ELSE PlainVisits(After(bd, LegalMoves(bd)[i]), depth - 1)
         + PlainVisitSum(bd, depth, i + 1)

PlainVisits(bd, depth) ==
  IF (depth = 0 /\ LegalMoves(bd) # <<>>) \/ IsTerminalOrDraw(bd)
  THEN 1
  ELSE 1 + PlainVisitSum(bd, depth, 1)

-----------------------------------------------------------------------------
(* Properties of the search *)

\* C1: at a position with a legal move, a search of depth > 0 returns a
\* move, and the move is one of the position's legal moves.  Stated for the
\* positions that are not drawn, where every reading of the claim applies.
C1_SearchReturnsLegalMove ==
  (sOp = "search" /\ sDepth > 0 /\ LegalMoves(sBoard) # <<>>
     /\ ~IsTerminalOrDraw(sBoard)) =>
     (sResult.best_move # None /\ IsLegalMove(sBoard, sResult.best_move))

\* C2: at a position that is not itself drawn and where a legal move
\* delivers checkmate, a search of depth >= 1 returns a mating move and the
\* score that is best for the side to move, whichever colour it is.
C2_MateInOneFound ==
  (/\ sOp = "search"
   /\ sDepth >= 1
   /\ ~IsTerminalOrDraw(sBoard)
   /\ \E i \in 1..Len(LegalMoves(sBoard)) :
         IsCheckmate(After(sBoard, LegalMoves(sBoard)[i]))) =>
     (/\ sResult.best_move # None
      /\ IsLegalMove(sBoard, sResult.best_move)
      /\ IsCheckmate(After(sBoard, sResult.best_move))
      /\ sResult.value = Inf)

\* C3: at a checkmate, stalemate or draw-claimable position the search
\* returns no move and the terminal score (0 for the draws, a checkmate
\* sentinel for checkmate) at every depth, depth 0 included.
C3_TerminalBeforeDepth ==
  (sOp = "search" /\ IsTerminalOrDraw(sBoard)) =>
     (/\ sResult.best_move = None
      /\ IF IsCheckmate(sBoard)
         THEN sResult.value \in {Inf, -Inf}
         ELSE sResult.value = 0)

\* C4: with the full window, the pruned search returns the score and the
\* best move of the negamax recursion that searches every move.
C4_PruningPreservesResult ==
  (sOp = "search") =>
     (/\ sResult.value = negamax(sBoard, sDepth).eval
      /\ sResult.best_move = negamax(sBoard, sDepth).move)

\* C4 witness: a search that returned a move and skipped part of the tree.
C4_Witness ==
  /\ sOp = "search"
  /\ sResult.best_move # None
  /\ Visits(sBoard, -Inf, Inf, sDepth) < PlainVisits(sBoard, sDepth)

\* C5: the static evaluation of a placement with white to move is the
\* negation of its evaluation with black to move.
C5_EvaluationFlipsWithSide ==
  (sOp = "evaluate") => (sResult = -evaluate_board(Flipped(sBoard)))

\* C15: at a checkmate the search returns the score that is worst for the
\* side to move, whichever colour is checkmated.
C15_CheckmateWorstForMover ==
  (sOp = "search" /\ IsCheckmate(sBoard)) =>
     (sResult.best_move = None /\ sResult.value = -Inf)

\* every call of the search hands the board back as it received it, and the
\* loop of every node tries each of its moves on the node's own position;
\* `result` is what the call returned
RECURSIVE Restores(_, _, _, _, _)
RECURSIVE RestoresLoop(_, _, _, _, _, _, _)

RestoresLoop(node, bd, alpha, beta, depth, i, best_eval) ==
  IF i > Len(LegalMoves(node))
  THEN TRUE
  ELSE /\ bd = node
       /\ LET pushed   == PushUci(bd, Str(LegalMoves(bd)[i]))
              child    == minimax(pushed, -beta, -alpha, depth - 1)
              cur_eval == -child.eval
              popped   == Pop(child.board)
              better   == best_eval < cur_eval
              new_eval == IF better THEN cur_eval ELSE best_eval
              new_alpha == IF better THEN cur_eval ELSE alpha
          IN  /\ Restores(pushed, -beta, -alpha, depth - 1, child)
              /\ IF BetaCutoff(new_eval, new_alpha, beta)
                 THEN popped = node
                 ELSE RestoresLoop(node, popped, new_alpha, beta, depth, i + 1, new_eval)

Restores(bd, alpha, beta, depth, result) ==
  /\ result.board = bd
  /\ Branch(bd, depth) = "enumerate" =>
       RestoresLoop(bd, bd, alpha, beta, depth, 1, -Inf)

\* C16: when minimax_move returns, the board (move stack, position and side
\* to move) is the one the search was called on; the same holds of every
\* call of _minimax made on the way, also where the loop was left by the
\* break, and every move of a node is tried on the node's own position.
C16_SearchRestoresBoard ==
  (sOp = "search") =>
     Restores(sBoard, -Inf, Inf, sDepth, sResult)

\* C16 witness: a search of two plies or more that left a loop by the break
\* and handed back the board it was called on.
C16_Witness ==
  /\ sOp = "search"
  /\ sDepth >= 2
  /\ sResult.board = sBoard
  /\ Visits(sBoard, -Inf, Inf, sDepth) < PlainVisits(sBoard, sDepth)

\* Every call the search can make from a position, whatever the window: it
\* has a depth >= 0, it enumerates moves only with a legal move and a depth
\* >= 1, and it answers a position without legal moves from the checkmate
\* and stalemate tests.  The calls of a search are among the positions
\* reached by the moves of the positions whose moves are enumerated.
RECURSIVE WellFounded(_, _)

WellFounded(bd, depth) ==
  /\ depth >= 0
  /\ LegalMoves(bd) = <<>> =>
       /\ Branch(bd, depth) \in {"draw", "white_wins", "black_wins"}
       /\ Branch(bd, depth) = "draw" <=> IsStalemate(bd)
       /\ Branch(bd, depth) # "draw" <=> IsCheckmate(bd)
       /\ minimax(bd, -Inf, Inf, depth).move = None
       /\ minimax(bd, -Inf, Inf, depth).eval \in {0, Inf, -Inf}
  /\ Branch(bd, depth) = "enumerate" =>
       /\ LegalMoves(bd) # <<>>
       /\ depth >= 1
       /\ \A i \in 1..Len(LegalMoves(bd)) :
            WellFounded(After(bd, LegalMoves(bd)[i]), depth - 1)

\* C17: the engine answers checkmate or stalemate for every position without
\* legal moves.  Then every call a search of depth >= 0 makes has a depth
\* >= 0; the moves are enumerated only at a position with a legal move and
\* a depth >= 1; a position without legal moves is answered by the
\* stalemate and checkmate tests at every depth, 0 included.
C17_EnumerationNeedsMovesAndDepth ==
  (sOp = "search") => WellFounded(sBoard, sDepth)

\* C17 witness: a search of depth 1 whose first move leads to a position
\* without legal moves, which is visited at depth 0.
C17_Witness ==
  /\ sOp = "search"
  /\ sDepth = 1
  /\ Branch(sBoard, sDepth) = "enumerate"
  /\ LegalMoves(After(sBoard, LegalMoves(sBoard)[1])) = <<>>

-----------------------------------------------------------------------------
(* Properties of the session *)

IsPrefix(a, b) == Len(a) <= Len(b) /\ SubSeq(b, 1, Len(a)) = a

\* the moves of the board in coordinate notation, as the server lists them
UciStack(bd) == [k \in 1..Len(bd.stack) |-> Str(bd.stack[k].move)]

SessionExists == pc \notin {"new", "ctor_failed"}

\* the side to move in the game when the session is created
SelfToMoveAtStart ==
  \/ color = WHITE /\ Len(initEvent.moves) % 2 = 0
  \/ color = BLACK /\ Len(initEvent.moves) % 2 = 1

\* C6: the moves of the local board are moves of record, in their order: the
\* board never holds a move the server has not recorded.
C6_BoardHoldsMovesOfRecord ==
  SessionExists => IsPrefix(UciStack(board), record)

\* C7: when the loop reads an in-progress event whose moves are all on the
\* local board already, the board stays as it is and no error is raised.
C7_DuplicateEventIgnored ==
  [][(/\ pc = "loop"
      /\ pc' # "loop"
      /\ stream # <<>>
      /\ Head(stream).status = "started"
      /\ Head(stream).moves # <<>>
      /\ IsPrefix(Head(stream).moves, UciStack(board)))
        => (board' = board /\ pc' # "raised")]_vars

\* C8: a session created as black on a game with one move does not wait for
\* a further event, and its first search runs on a board that holds exactly
\* that move.
C8_HistoryAppliedBeforeSearch ==
  (/\ pc \notin {"new", "ctor_failed", "start"}
   /\ color = BLACK
   /\ Len(initEvent.moves) = 1) =>
     (/\ ~(pc = "loop" /\ reads = 1)
      /\ searches >= 1 => UciStack(searchedAt) = initEvent.moves)

\* C9: the first step of run goes to a move exactly when self is the side to
\* move in the game, and to the read of the next event otherwise.
C9_MovesFirstIffSelfToMove ==
  [][(pc = "start" /\ pc' # "start") =>
       (/\ pc' = "move" <=> SelfToMoveAtStart
        /\ pc' = "loop" <=> ~SelfToMoveAtStart)]_vars

\* C10: an error raised in the play loop is followed by exactly one
\* resignation and is propagated; no resignation is submitted otherwise, and
\* after the error the session searches and submits nothing.
C10_ErrorResignsOnceAndPropagates ==
  /\ [](resigns = IF pc = "raised" THEN 1 ELSE 0)
  /\ [][pc = "raised" =>
          /\ pc' = "raised"
          /\ searches' = searches
          /\ submits' = submits
          /\ resigns' = resigns
          /\ board' = board]_vars

\* C10 witness: the error was raised after a move had been submitted.
C10_Witness == pc = "raised" /\ resigns = 1 /\ submits >= 1 /\ reads >= 2

\* C11: when the session reads an event whose status is not 'started', in
\* the loop or as the first event after its own submission, it applies no
\* move of the event, and from then on it searches nothing and submits
\* neither a move nor a resignation: it leaves the loop at that event, or at
\* the end of the stream that follows it, and stays finished.
C11_TerminalEventFinishes ==
  /\ [][(/\ pc \in {"skip", "loop"}
         /\ stream # <<>>
         /\ Head(stream).status # "started"
         /\ reads' = reads + 1)
        => (/\ board' = board
            /\ searches' = searches
            /\ submits' = submits
            /\ resigns' = resigns
            /\ pc' = IF pc = "loop" THEN "done" ELSE "loop"
            /\ stream' = <<>>
            /\ closed')]_vars
  /\ [][(pc = "loop" /\ stream = <<>> /\ closed)
        => (/\ pc' = "done"
            /\ board' = board
            /\ searches' = searches
            /\ submits' = submits
            /\ resigns' = resigns)]_vars
  /\ [][pc = "done"
        => (/\ pc' = "done"
            /\ board' = board
            /\ searches' = searches
            /\ submits' = submits
            /\ resigns' = resigns)]_vars

\* C11 witness: the move of the session ended the game, the terminal event
\* was the one read after the submission, and the session has finished.
C11_Witness ==
  /\ pc = "done"
  /\ submits = 1
  /\ reads = 2
  /\ record # <<>>
  /\ GameEnded(RecordBoard)
  /\ resigns = 0

\* C12: a session sends at most one resignation, and sends it only when an
\* error was raised: a session that has left the loop without an error has
\* sent none.
C12_ResignsOnlyOnFailure ==
  /\ resigns <= 1
  /\ (pc = "done") => (resigns = 0)
  /\ (resigns > 0) => (pc = "raised")

\* C12 witness: the other side ended the game after the session had moved,
\* and the session left the loop at the terminal event.
C12_Witness ==
  /\ pc = "done"
  /\ over
  /\ ~GameEnded(RecordBoard)
  /\ stream = <<>>
  /\ submits >= 1
  /\ resigns = 0

\* C13: when the bot is neither the white nor the black player of the first
\* event, the construction fails before a board is created; no thread is
\* started, nothing is searched, and no move or resignation is submitted.
C13_StrangerFailsConstruction ==
  /\ [][(/\ pc = "new"
         /\ pc' # "new"
         /\ UserId # Head(stream).white
         /\ UserId # Head(stream).black)
        => (pc' = "ctor_failed" /\ board' = None)]_vars
  /\ [](pc = "ctor_failed" =>
          /\ board = None
          /\ workers[GameId] = 0
          /\ searches = 0
          /\ submits = 0
          /\ resigns = 0)
  /\ [][pc = "ctor_failed" => pc' = "ctor_failed"]_vars

\* C13 witness: the construction has failed on the first event.
C13_Witness == pc = "ctor_failed" /\ reads = 1 /\ BotSide = NoColor

\* the events emitted so far are the first event and one event per move
\* played since
OneEventPerMove == reads + Len(stream) = 1 + Len(record) - Len(initEvent.moves)

\* the events not yet read that carry a move the board does not hold
UnreadMoves == Len(stream) - (IF pc = "skip" THEN 1 ELSE 0)

\* C18: a performed move is followed by the read of exactly one event, which
\* is dropped without touching the board.  When the stream has emitted one
\* event per move, the board holds the moves played since the session was
\* created and read so far, each once, and the event the loop applies after
\* a move of the session is the reply of the other side.
C18_ConfirmationDiscardedOnce ==
  /\ [][(pc = "move" /\ pc' = "skip")
        => (submits' = submits + 1 /\ reads' = reads)]_vars
  /\ [][(pc = "skip" /\ pc' = "loop")
        => (/\ reads' = reads + 1
            /\ stream # <<>>
            /\ stream' = Tail(stream)
            /\ board' = board)]_vars
  /\ []((pc \in {"skip", "loop", "move"} /\ OneEventPerMove) =>
          /\ UciStack(board) =
               SubSeq(record, Len(initEvent.moves) + 1, Len(record) - UnreadMoves)
          /\ (pc = "move" /\ submits >= 1) =>
               (stream = <<>> /\ Turn(RecordBoard) = color))

\* C18 witness: the session has moved, dropped the confirmation and applied
\* the reply of the other side.
C18_Witness ==
  /\ pc = "move"
  /\ submits = 1
  /\ OneEventPerMove
  /\ Len(board.stack) = 2
  /\ reads = 3

\* C19: a move is submitted only if it is legal on the local board, which
\* then holds it; when the search gives None or a move that is not legal on
\* the board, move raises with the board as it was and nothing submitted.
C19_SubmitsOnlyLegalMoves ==
  /\ [][(submits' # submits) => (pc = "move" /\ submits' = submits + 1)]_vars
  /\ [][(pc = "move" /\ pc' # "move")
        => IF selected' # None /\ IsLegalMove(board, selected')
           THEN /\ submits' = submits + 1
                /\ board' = After(board, selected')
           ELSE /\ pc' = "raised"
                /\ board' = board
                /\ record' = record
                /\ submits' = submits]_vars

\* C19 witness: the search of the first move gave None, and the session
\* raised with the starting board and without a submission.
C19_Witness ==
  /\ pc = "raised"
  /\ selected = None
  /\ color = WHITE
  /\ searches = 1
  /\ submits = 0
  /\ board = StartBoard
  /\ record = <<>>

-----------------------------------------------------------------------------
(* Properties of the dispatcher *)

\* C14: whatever events arrive, a gameStart of one game more than once
\* included, at most one thread is started for a game.
C14_OneWorkerPerGame == \A g \in GameIds : workers[g] <= 1

\* C20: the dispatcher goes on listening after a gameStart whose session
\* fails in its construction (the first read or the colour test), and the
\* end of a thread by an error changes neither the dispatcher nor the
\* threads of the other games.
C20_SessionFailureSparesDispatcher ==
  /\ [][(/\ dpc = "listening"
         /\ incoming # <<>>
         /\ Head(incoming).type = "gameStart"
         /\ opening[Head(incoming).id] \in {"stranger", "broken"}
         /\ incoming' = Tail(incoming))
        => (dpc' = "listening")]_dvars
  /\ [][(failed' # failed)
        => (/\ dpc' = dpc
            /\ incoming' = incoming
            /\ workers' = workers
            /\ \E g \in GameIds :
                 /\ failed'[g] = failed[g] + 1
                 /\ \A h \in GameIds \ {g} : failed'[h] = failed[h])]_dvars

====
